---- MODULE Spec2Model ----
(***************************************************************************)
(* Client-side state layer of rewardsy: the zustand session store          *)
(* (hooks/useRealAuthStore.ts) and the useTasks hook (unnamed/part_004).   *)
(* Every asynchronous store operation is split at its single await: a      *)
(* Start action runs the code before the await and puts the request in     *)
(* flight, a Resolve / Reject action runs the code after it.  The remote   *)
(* API is an external collaborator: whether a request resolves or rejects, *)
(* and with which value, is an input chosen when the response arrives.     *)
(***************************************************************************)
EXTENDS Integers, Sequences, FiniteSets, TLC

\* ------------------------------------------------------------------ bounds
\* Number of asynchronous calls (of both stores together) one run issues.
MaxCalls == 3

\* ------------------------------------------------------------------ values
NoUser == "null"
Users == {"alice", "bob"}
NoError == "null"

\* A value thrown by the API client: an Error carrying a message, or a value
\* that is not an Error (for which `instanceof Error` is false).
Failures ==
  { [isError |-> TRUE, message |-> "Network error"],
    [isError |-> FALSE, message |-> "" ] }

\* Faulty variant: err.message without the instanceof test.
ErrMsgNoFallback(f, fallback) == f.message
\* err instanceof Error ? err.message : fallback
ErrMsg(f, fallback) == IF f.isError THEN f.message ELSE fallback

\* Task ids are opaque strings (Task.id: string); the tests use '1', '2', ...
TaskIds == {"1", "2"}
TaskValues == [id : TaskIds, completed : BOOLEAN]

\* Tasks with their optional completedAt (part_002:145): whether the server's
\* representation carries a completion timestamp.
StampedTasks == [id : TaskIds, completed : BOOLEAN, completedAt : BOOLEAN]

RECURSIVE SeqsUpTo(_, _)
SeqsUpTo(S, n) ==
  IF n = 0 THEN {<<>>}
  ELSE LET shorter == SeqsUpTo(S, n - 1)
       IN shorter \cup {Append(s, x) : s \in {t \in shorter : Len(t) = n - 1}, x \in S}

DistinctIds(s) == \A i, j \in DOMAIN s : i # j => s[i].id # s[j].id

\* The lists getTasks can return: the server's tasks have distinct ids.
FetchLists == {s \in SeqsUpTo(TaskValues, Cardinality(TaskIds)) : DistinctIds(s)}

StampedFetchLists ==
  {s \in SeqsUpTo(StampedTasks, Cardinality(TaskIds)) : DistinctIds(s)}

Undefined == [undefined |-> TRUE]

VARIABLES
  user, isLoading, error,          \* session store (useRealAuthStore.ts:22-24)
  _hasHydrated,                    \* session store (useRealAuthStore.ts:25)
  persisted,                       \* the user saved under 'auth-storage'
  rehydration,                     \* the persist middleware's restore: pending, done, failed
  storedUser, token,               \* localStorage 'user' and 'auth-token'
  pageDeps, redirected,            \* a dashboard page: its effect's last dependencies, whether it left for /login
  isCompleting,                    \* per task, the isCompleting state of its TaskCard (part_002:40)
  tasks, tasksLoading, tasksError, \* useTasks state (part_004:7-9)
  mounted,                         \* whether the hook's mount effect has run
  inflight,                        \* requests awaiting their response
  nextId,                          \* id of the next call (call order)
  last,                            \* the latest step: call, phase, remote outcome, promise
  history,                         \* the settled steps, in arrival order, kept when recording
  owners,                          \* per task, the session user when it entered the collection, kept when recording
  recording,                       \* whether this run keeps the history and the owners
  server,                          \* the tasks the server holds, and the ids it has given out
  answers                          \* the server's answer to each request it has processed

vars == <<user, isLoading, error, _hasHydrated, persisted, rehydration,
          storedUser, token, pageDeps, redirected, isCompleting,
          tasks, tasksLoading, tasksError, mounted,
          inflight, nextId, last, history, owners, recording,
          server, answers>>
ghostVars == <<history, owners, recording>>
authVars == <<user, isLoading, error, _hasHydrated, persisted>>
taskVars == <<tasks, tasksLoading, tasksError, mounted>>
pageVars == <<rehydration, storedUser, token, pageDeps, redirected>>
cardVars == <<isCompleting>>
serverVars == <<server, answers>>

\* ------------------------------------------------------------------ steps
\* What the remote call gave, and what the store operation's own promise
\* gives its caller.
NoRemote == [kind |-> "none", val |-> Undefined]
Resolved(v) == [kind |-> "resolved", val |-> v]
Rejected(f) == [kind |-> "rejected", val |-> f]
Pending == [kind |-> "pending", val |-> Undefined]
Fulfilled(v) == [kind |-> "fulfilled", val |-> v]
Thrown(f) == [kind |-> "rejected", val |-> f]

\* errorBefore: the error field of the operation's store when the step began.
Step(c, phase, remote, promise, errorBefore) ==
  [id |-> c.id, op |-> c.op, arg |-> c.arg, request |-> c.request,
   phase |-> phase, remote |-> remote, promise |-> promise,
   errorBefore |-> errorBefore]

NoArg == [none |-> TRUE]

\* The method of the API client an operation awaits, and what it passes to it
\* (useRealAuthStore.ts:43, 57, 71, 81; part_004:14, 26, 37, 50, 60).  The
\* credentials and the task data are not modelled.
NoRequest == [api |-> "none", args |-> NoArg]
Request(op, arg) ==
  CASE op = "login" -> [api |-> "authAPI.login", args |-> NoArg]
    [] op = "register" -> [api |-> "authAPI.register", args |-> NoArg]
    [] op = "logout" -> [api |-> "authAPI.logout", args |-> NoArg]
    [] op = "resetPassword" -> [api |-> "authAPI.resetPassword", args |-> NoArg]
    [] op = "fetchTasks" -> [api |-> "tasksAPI.getTasks", args |-> NoArg]
    [] op = "createTask" -> [api |-> "tasksAPI.createTask", args |-> NoArg]
    [] op = "updateTask" ->
         [api |-> "tasksAPI.updateTask",
          args |-> [id |-> arg.id, updates |-> [completed |-> arg.completed]]]
    [] op = "deleteTask" -> [api |-> "tasksAPI.deleteTask", args |-> [id |-> arg.id]]
    [] op = "completeTask" ->
         [api |-> "tasksAPI.completeTask",
          args |-> [id |-> arg.id, completed |-> arg.completed]]

Call(op, arg) == [id |-> nextId, op |-> op, arg |-> arg, request |-> Request(op, arg)]
SyncCall(op, arg) == [id |-> 0, op |-> op, arg |-> arg, request |-> NoRequest]

\* Whether call c was made by a TaskCard's handleComplete, through its
\* onComplete prop (part_002:43; today/page.tsx:72-74, 191).
FromCard(c) == "card" \in DOMAIN c.arg

\* part_002:41  setIsCompleting(true), before the card awaits onComplete
CardAfterIssue(c) ==
  IF FromCard(c) THEN [isCompleting EXCEPT ![c.arg.id] = TRUE] ELSE isCompleting

\* Faulty variant: the card is re-enabled only when onComplete resolves.
CardAfterSettleNoFinally(c, remote) ==
  IF FromCard(c) /\ remote.kind = "resolved"
  THEN [isCompleting EXCEPT ![c.arg.id] = FALSE]
  ELSE isCompleting

\* part_002:44-46  finally { setIsCompleting(false) }, once onComplete has
\* settled either way
CardAfterSettle(c, remote) ==
  IF FromCard(c) THEN [isCompleting EXCEPT ![c.arg.id] = FALSE] ELSE isCompleting

\* The code before the await has run: the request is in flight.
Issue(c, errorBefore) ==
  /\ nextId <= MaxCalls
  /\ inflight' = inflight \cup {c}
  /\ nextId' = nextId + 1
  /\ last' = Step(c, "start", NoRemote, Pending, errorBefore)
  /\ isCompleting' = CardAfterIssue(c)
  /\ UNCHANGED <<ghostVars, pageVars, serverVars>>

\* The session user of each task after the response of call c: a fetched or
\* created task enters the collection under the user of that moment, a
\* deleted task leaves with its owner (part_004:15, 27, 51).
OwnersAfter(c, remote) ==
  IF remote.kind # "resolved" THEN owners
  ELSE CASE c.op = "fetchTasks" -> [i \in DOMAIN remote.val |-> user]
         [] c.op = "createTask" -> Append(owners, user)
         [] c.op = "deleteTask" ->
              LET kept == SelectSeq([i \in DOMAIN tasks |-> i],
                                    LAMBDA i : tasks[i].id # c.arg.id)
              IN [k \in DOMAIN kept |-> owners[kept[k]]]
         [] OTHER -> owners

\* The response has arrived and the code after the await has run.
Settle(c, remote, promise, errorBefore) ==
  /\ c \in inflight
  /\ inflight' = inflight \ {c}
  /\ nextId' = nextId
  /\ last' = Step(c, "settled", remote, promise, errorBefore)
  /\ history' = IF recording THEN Append(history, last') ELSE history
  /\ owners' = IF recording THEN OwnersAfter(c, remote) ELSE owners
  /\ recording' = recording
  /\ isCompleting' = CardAfterSettle(c, remote)
  /\ UNCHANGED <<pageVars, serverVars>>

\* ------------------------------------------------------------------ session store
\* zustand's set(partial): the fields the partial names are replaced, the
\* others kept.  The persist middleware then saves partialize(state), the
\* user alone, under 'auth-storage' (useRealAuthStore.ts:100-102).
Pick(p, k, old) == IF k \in DOMAIN p THEN p[k] ELSE old
Set(p) ==
  /\ user' = Pick(p, "user", user)
  /\ isLoading' = Pick(p, "isLoading", isLoading)
  /\ error' = Pick(p, "error", error)
  /\ _hasHydrated' = Pick(p, "_hasHydrated", _hasHydrated)
  /\ persisted' = user'

\* useRealAuthStore.ts:41
LoginBegin == [isLoading |-> TRUE, error |-> NoError]
\* Faulty variant: a login answered while a user is already set keeps that user.
LoginOkKeepsFirst(u) ==
  [user |-> IF user = NoUser THEN u ELSE user, isLoading |-> FALSE]
\* useRealAuthStore.ts:44
LoginOk(u) == [user |-> u, isLoading |-> FALSE]
\* Faulty variant: a failed login also drops the user.
LoginFailedDropsUser(f) ==
  [user |-> NoUser, error |-> ErrMsg(f, "Login failed"), isLoading |-> FALSE]
\* useRealAuthStore.ts:46-49
LoginFailed(f) == [error |-> ErrMsg(f, "Login failed"), isLoading |-> FALSE]
\* useRealAuthStore.ts:55
RegisterBegin == [isLoading |-> TRUE, error |-> NoError]
\* useRealAuthStore.ts:58
RegisterOk(u) == [user |-> u, isLoading |-> FALSE]
\* useRealAuthStore.ts:60-63
RegisterFailed(f) == [error |-> ErrMsg(f, "Registration failed"), isLoading |-> FALSE]
\* useRealAuthStore.ts:69
LogoutBegin == [isLoading |-> TRUE]
\* useRealAuthStore.ts:72
LogoutOk == [user |-> NoUser, isLoading |-> FALSE, error |-> NoError]
\* useRealAuthStore.ts:74
LogoutFailed == [isLoading |-> FALSE]
\* Faulty variant: resetPassword starts without clearing the error.
ResetBeginKeepsError == [isLoading |-> TRUE]
\* useRealAuthStore.ts:79
ResetBegin == [isLoading |-> TRUE, error |-> NoError]
\* Faulty variant: a successful resetPassword leaves the loading flag up.
ResetOkKeepsLoading == [error |-> NoError]
\* useRealAuthStore.ts:82
ResetOk == [isLoading |-> FALSE]
\* useRealAuthStore.ts:84-87
ResetFailed(f) == [error |-> ErrMsg(f, "Password reset failed"), isLoading |-> FALSE]

login ==
  /\ Set(LoginBegin)
  /\ Issue(Call("login", NoArg), error)
  /\ UNCHANGED taskVars

\* Faulty variant: a response is dropped when a newer call has been issued.
loginResolveFenced(c, u) ==
  /\ c.op = "login"
  /\ IF c.id = nextId - 1 THEN Set(LoginOk(u)) ELSE UNCHANGED authVars
  /\ Settle(c, Resolved(u), Fulfilled(Undefined), error)
  /\ UNCHANGED taskVars

\* useRealAuthStore.ts:42-44  login after its await, on success
loginResolve(c, u) ==
  /\ c.op = "login"
  /\ Set(LoginOk(u))
  /\ Settle(c, Resolved(u), Fulfilled(Undefined), error)
  /\ UNCHANGED taskVars

loginReject(c, f) ==
  /\ c.op = "login"
  /\ Set(LoginFailed(f))
  /\ Settle(c, Rejected(f), Thrown(f), error)
  /\ UNCHANGED taskVars

register ==
  /\ Set(RegisterBegin)
  /\ Issue(Call("register", NoArg), error)
  /\ UNCHANGED taskVars

registerResolve(c, u) ==
  /\ c.op = "register"
  /\ Set(RegisterOk(u))
  /\ Settle(c, Resolved(u), Fulfilled(Undefined), error)
  /\ UNCHANGED taskVars

registerReject(c, f) ==
  /\ c.op = "register"
  /\ Set(RegisterFailed(f))
  /\ Settle(c, Rejected(f), Thrown(f), error)
  /\ UNCHANGED taskVars

logout ==
  /\ Set(LogoutBegin)
  /\ Issue(Call("logout", NoArg), error)
  /\ UNCHANGED taskVars

logoutResolve(c) ==
  /\ c.op = "logout"
  /\ Set(LogoutOk)
  /\ Settle(c, Resolved(Undefined), Fulfilled(Undefined), error)
  /\ UNCHANGED taskVars

\* Faulty variant: the catch block rethrows, as login's does.
logoutRejectRethrows(c, f) ==
  /\ c.op = "logout"
  /\ Set(LogoutFailed)
  /\ Settle(c, Rejected(f), Thrown(f), error)
  /\ UNCHANGED taskVars

\* The catch block swallows the failure: the promise is fulfilled.
logoutReject(c, f) ==
  /\ c.op = "logout"
  /\ Set(LogoutFailed)
  /\ Settle(c, Rejected(f), Fulfilled(Undefined), error)
  /\ UNCHANGED taskVars

resetPassword ==
  /\ Set(ResetBegin)
  /\ Issue(Call("resetPassword", NoArg), error)
  /\ UNCHANGED taskVars

resetPasswordResolve(c) ==
  /\ c.op = "resetPassword"
  /\ Set(ResetOk)
  /\ Settle(c, Resolved(Undefined), Fulfilled(Undefined), error)
  /\ UNCHANGED taskVars

resetPasswordReject(c, f) ==
  /\ c.op = "resetPassword"
  /\ Set(ResetFailed(f))
  /\ Settle(c, Rejected(f), Thrown(f), error)
  /\ UNCHANGED taskVars

\* useRealAuthStore.ts:92-94
setUser(u) ==
  /\ Set([user |-> u])
  /\ last' = Step(SyncCall("setUser", [user |-> u]), "sync", NoRemote, Fulfilled(Undefined), error)
  /\ UNCHANGED <<inflight, nextId, ghostVars, cardVars, serverVars, pageVars>>
  /\ UNCHANGED taskVars

\* useRealAuthStore.ts:96-98
clearError ==
  /\ Set([error |-> NoError])
  /\ last' = Step(SyncCall("clearError", NoArg), "sync", NoRemote, Fulfilled(Undefined), error)
  /\ UNCHANGED <<inflight, nextId, ghostVars, cardVars, serverVars, pageVars>>
  /\ UNCHANGED taskVars

\* useRealAuthStore.ts:27-29
setHasHydrated(hasHydrated) ==
  /\ Set([_hasHydrated |-> hasHydrated])
  /\ last' = Step(SyncCall("setHasHydrated", [hasHydrated |-> hasHydrated]),
                  "sync", NoRemote, Fulfilled(Undefined), error)
  /\ UNCHANGED <<inflight, nextId, ghostVars, cardVars, serverVars, pageVars>>
  /\ UNCHANGED taskVars

\* useRealAuthStore.ts:31-39  getStoredUser() gives the user kept under
\* 'user'; the user is set only where there is a window, and only when both
\* the stored user and the token are there.  Nothing is done otherwise.
initializeAuth(hasWindow) ==
  /\ IF hasWindow /\ storedUser # NoUser /\ token
     THEN Set([user |-> storedUser])
     ELSE UNCHANGED authVars
  /\ last' = Step(SyncCall("initializeAuth", [hasWindow |-> hasWindow]),
                  "sync", NoRemote, Fulfilled(Undefined), error)
  /\ UNCHANGED <<inflight, nextId, ghostVars, cardVars, serverVars, pageVars>>
  /\ UNCHANGED taskVars

\* ------------------------------------------------------------------ persistence
\* Nothing saved under 'auth-storage'.
Absent == "absent"

\* The persist middleware restores the saved state once, when the store is
\* created: the saved user, if there is one, is merged into the state, and the
\* callback of onRehydrateStorage gets the restored state and calls
\* setHasHydrated(true) on it (useRealAuthStore.ts:103-105).
rehydrate ==
  /\ rehydration = "pending"
  /\ rehydration' = "done"
  /\ Set([user |-> IF persisted = Absent THEN user ELSE persisted,
          _hasHydrated |-> TRUE])
  /\ last' = Step(SyncCall("onRehydrateStorage", [hasHydrated |-> TRUE]),
                  "sync", NoRemote, Fulfilled(Undefined), error)
  /\ UNCHANGED <<storedUser, token, pageDeps, redirected>>
  /\ UNCHANGED <<inflight, nextId, ghostVars, cardVars, serverVars, taskVars>>

\* The restore fails: the callback gets undefined in place of the state and
\* `state?.setHasHydrated(true)` does nothing (useRealAuthStore.ts:104).
rehydrateFailed ==
  /\ rehydration = "pending"
  /\ rehydration' = "failed"
  /\ last' = Step(SyncCall("onRehydrateStorage", Undefined),
                  "sync", NoRemote, Fulfilled(Undefined), error)
  /\ UNCHANGED <<storedUser, token, pageDeps, redirected>>
  /\ UNCHANGED <<inflight, nextId, ghostVars, cardVars, serverVars, taskVars, authVars>>

\* The API client keeps the user and the access token under their own keys
\* ('user', 'auth-token'); what it writes there, and when, is its own affair.
storageChange(su, tk) ==
  /\ <<storedUser, token>> # <<su, tk>>
  /\ storedUser' = su
  /\ token' = tk
  /\ last' = Step(SyncCall("localStorage", [user |-> su, token |-> tk]),
                  "sync", NoRemote, Fulfilled(Undefined), error)
  /\ UNCHANGED <<rehydration, pageDeps, redirected>>
  /\ UNCHANGED <<inflight, nextId, ghostVars, cardVars, serverVars, taskVars, authVars>>

\* ------------------------------------------------------------------ dashboard page
Unmounted == [unmounted |-> TRUE]
Deps == [user |-> user, _hasHydrated |-> _hasHydrated]

\* today/page.tsx:41  !user && (!storedUser || !token)
NotAuthenticated == user = NoUser /\ (storedUser = NoUser \/ ~token)

\* Faulty variant: the effect does not wait for the restore.
checkAuthUngated ==
  /\ ~redirected
  /\ pageDeps # Deps
  /\ pageDeps' = Deps
  /\ redirected' = NotAuthenticated
  /\ last' = Step(SyncCall("checkAuth", [evaluated |-> TRUE]),
                  "sync", NoRemote, Fulfilled(Undefined), error)
  /\ UNCHANGED <<rehydration, storedUser, token>>
  /\ UNCHANGED <<inflight, nextId, ghostVars, cardVars, serverVars, taskVars, authVars>>

\* today/page.tsx:34-50: the effect of a dashboard page runs after the first
\* render and after every render in which user or _hasHydrated has changed; it
\* returns at once while _hasHydrated is false, and otherwise checks the user
\* and the two stored items and may leave for /login.
checkAuth ==
  /\ ~redirected
  /\ pageDeps # Deps
  /\ pageDeps' = Deps
  /\ redirected' = (_hasHydrated /\ NotAuthenticated)
  /\ last' = Step(SyncCall("checkAuth", [evaluated |-> _hasHydrated]),
                  "sync", NoRemote, Fulfilled(Undefined), error)
  /\ UNCHANGED <<rehydration, storedUser, token>>
  /\ UNCHANGED <<inflight, nextId, ghostVars, cardVars, serverVars, taskVars, authVars>>

\* ------------------------------------------------------------------ useTasks
\* What createTask can return: a task starts not completed.
CreateResponses == {t \in TaskValues : ~t.completed}
\* What updateTask / completeTask can return for (id, {completed}): the
\* server's representation of that task with the patch applied.
UpdateResponses(id, completed) ==
  {t \in TaskValues \cup StampedTasks : t.id = id /\ t.completed = completed}

\* Faulty variant: the fetched tasks are added to the ones already held.
SetFetchedMerges(prev, fetchedTasks) == prev \o fetchedTasks
\* part_004:15  setTasks(fetchedTasks)
SetFetched(prev, fetchedTasks) == fetchedTasks
\* Faulty variant: the new task is put first.
PrependTask(prev, newTask) == <<newTask>> \o prev
\* part_004:27  setTasks(prev => [...prev, newTask])
AppendTask(prev, newTask) == prev \o <<newTask>>
\* Faulty variant: the confirmed update is not applied.
ReplaceTaskDropsUpdate(prev, id, updatedTask) == prev
\* Faulty variant: the matching task is taken out and the update put last.
ReplaceTaskMovesLast(prev, id, updatedTask) ==
  IF \E i \in DOMAIN prev : prev[i].id = id
  THEN SelectSeq(prev, LAMBDA task : task.id # id) \o <<updatedTask>>
  ELSE prev
\* Faulty variant: an update whose task is not in the collection adds it.
ReplaceTaskUpserts(prev, id, updatedTask) ==
  IF \E i \in DOMAIN prev : prev[i].id = id
  THEN [i \in DOMAIN prev |-> IF prev[i].id = id THEN updatedTask ELSE prev[i]]
  ELSE prev \o <<updatedTask>>
\* part_004:38-40  setTasks(prev => prev.map(task => task.id === id ? updatedTask : task))
ReplaceTask(prev, id, updatedTask) ==
  [i \in DOMAIN prev |-> IF prev[i].id = id THEN updatedTask ELSE prev[i]]
\* part_004:51  setTasks(prev => prev.filter(task => task.id !== id))
RemoveTask(prev, id) == SelectSeq(prev, LAMBDA task : task.id # id)
\* Faulty variant: a task already completed is not changed again.
ReplaceCompletedKeepsDone(prev, id, updatedTask) ==
  [i \in DOMAIN prev |->
     IF prev[i].id = id /\ ~prev[i].completed THEN updatedTask ELSE prev[i]]
\* Faulty variant: a filter in place of the map drops the other tasks.
ReplaceCompletedDropsOthers(prev, id, updatedTask) ==
  [i \in DOMAIN SelectSeq(prev, LAMBDA task : task.id = id) |-> updatedTask]
\* Faulty variant: only the flag of the returned task is taken over.
ReplaceCompletedFlagOnly(prev, id, updatedTask) ==
  [i \in DOMAIN prev |->
     IF prev[i].id = id
     THEN [prev[i] EXCEPT !.completed = updatedTask.completed]
     ELSE prev[i]]
\* part_004:61-63  the same map, in completeTask
ReplaceCompleted(prev, id, updatedTask) ==
  [i \in DOMAIN prev |-> IF prev[i].id = id THEN updatedTask ELSE prev[i]]

\* part_004:18, 30, 43, 53, 66
FetchError(f) == ErrMsg(f, "Failed to fetch tasks")
CreateError(f) == ErrMsg(f, "Failed to create task")
UpdateError(f) == ErrMsg(f, "Failed to update task")
DeleteError(f) == ErrMsg(f, "Failed to delete task")
CompleteError(f) == ErrMsg(f, "Failed to update task")

\* part_004:16  setError(null) after a successful fetch
FetchOkError(prevError) == NoError
\* createTask, updateTask, deleteTask and completeTask call no setError on
\* their success path (part_004:26-28, 37-41, 50-51, 60-64).
MutationOkError(prevError) == prevError

\* part_004:11-14  fetchTasks up to its await
fetchStart ==
  /\ tasksLoading' = TRUE
  /\ Issue(Call("fetchTasks", NoArg), tasksError)
  /\ UNCHANGED <<tasks, tasksError>>

\* part_004:71-73  the mount effect
mountEffect ==
  /\ ~mounted
  /\ mounted' = TRUE
  /\ fetchStart
  /\ UNCHANGED authVars

\* part_004:83  refetch: fetchTasks
refetch ==
  /\ mounted
  /\ fetchStart
  /\ UNCHANGED <<mounted, authVars>>

fetchResolve(c, fetchedTasks) ==
  /\ c.op = "fetchTasks"
  /\ tasks' = SetFetched(tasks, fetchedTasks)
  /\ tasksError' = FetchOkError(tasksError)
  /\ tasksLoading' = FALSE
  /\ Settle(c, Resolved(fetchedTasks), Fulfilled(Undefined), tasksError)
  /\ UNCHANGED <<mounted, authVars>>

\* fetchTasks catches the failure and does not rethrow.
fetchReject(c, f) ==
  /\ c.op = "fetchTasks"
  /\ tasksError' = FetchError(f)
  /\ tasksLoading' = FALSE
  /\ Settle(c, Rejected(f), Fulfilled(Undefined), tasksError)
  /\ UNCHANGED <<tasks, mounted, authVars>>

createTask ==
  /\ mounted
  /\ Issue(Call("createTask", NoArg), tasksError)
  /\ UNCHANGED <<taskVars, authVars>>

createTaskResolve(c, newTask) ==
  /\ c.op = "createTask"
  /\ tasks' = AppendTask(tasks, newTask)
  /\ tasksError' = MutationOkError(tasksError)
  /\ Settle(c, Resolved(newTask), Fulfilled(newTask), tasksError)
  /\ UNCHANGED <<tasksLoading, mounted, authVars>>

\* Faulty variant: the catch block undoes an append that was never made.
createTaskRejectRollsBack(c, f) ==
  /\ c.op = "createTask"
  /\ tasks' = SubSeq(tasks, 1, Len(tasks) - 1)
  /\ tasksError' = CreateError(f)
  /\ Settle(c, Rejected(f), Thrown(f), tasksError)
  /\ UNCHANGED <<tasksLoading, mounted, authVars>>

createTaskReject(c, f) ==
  /\ c.op = "createTask"
  /\ tasksError' = CreateError(f)
  /\ Settle(c, Rejected(f), Thrown(f), tasksError)
  /\ UNCHANGED <<tasks, tasksLoading, mounted, authVars>>

updateTask(id, completed) ==
  /\ mounted
  /\ Issue(Call("updateTask", [id |-> id, completed |-> completed]), tasksError)
  /\ UNCHANGED <<taskVars, authVars>>

updateTaskResolve(c, updatedTask) ==
  /\ c.op = "updateTask"
  /\ updatedTask \in UpdateResponses(c.arg.id, c.arg.completed)
  /\ tasks' = ReplaceTask(tasks, c.arg.id, updatedTask)
  /\ tasksError' = MutationOkError(tasksError)
  /\ Settle(c, Resolved(updatedTask), Fulfilled(updatedTask), tasksError)
  /\ UNCHANGED <<tasksLoading, mounted, authVars>>

updateTaskReject(c, f) ==
  /\ c.op = "updateTask"
  /\ tasksError' = UpdateError(f)
  /\ Settle(c, Rejected(f), Thrown(f), tasksError)
  /\ UNCHANGED <<tasks, tasksLoading, mounted, authVars>>

\* Faulty variant: the task is removed before the server has answered.
deleteTaskOptimistic(id) ==
  /\ mounted
  /\ tasks' = SelectSeq(tasks, LAMBDA task : task.id # id)
  /\ Issue(Call("deleteTask", [id |-> id]), tasksError)
  /\ UNCHANGED <<tasksLoading, tasksError, mounted, authVars>>

\* part_004:48-50  deleteTask up to its await
deleteTask(id) ==
  /\ mounted
  /\ Issue(Call("deleteTask", [id |-> id]), tasksError)
  /\ UNCHANGED <<taskVars, authVars>>

deleteTaskResolve(c) ==
  /\ c.op = "deleteTask"
  /\ tasks' = RemoveTask(tasks, c.arg.id)
  /\ tasksError' = MutationOkError(tasksError)
  /\ Settle(c, Resolved(Undefined), Fulfilled(Undefined), tasksError)
  /\ UNCHANGED <<tasksLoading, mounted, authVars>>

deleteTaskReject(c, f) ==
  /\ c.op = "deleteTask"
  /\ tasksError' = DeleteError(f)
  /\ Settle(c, Rejected(f), Thrown(f), tasksError)
  /\ UNCHANGED <<tasks, tasksLoading, mounted, authVars>>

\* Faulty variant: the flag is flipped locally before the server has answered.
completeTaskOptimistic(id, completed) ==
  /\ mounted
  /\ tasks' = [i \in DOMAIN tasks |->
                IF tasks[i].id = id
                THEN [tasks[i] EXCEPT !.completed = completed]
                ELSE tasks[i]]
  /\ Issue(Call("completeTask", [id |-> id, completed |-> completed]), tasksError)
  /\ UNCHANGED <<tasksLoading, tasksError, mounted, authVars>>

\* part_004:58-60  completeTask up to its await
completeTask(id, completed) ==
  /\ mounted
  /\ Issue(Call("completeTask", [id |-> id, completed |-> completed]), tasksError)
  /\ UNCHANGED <<taskVars, authVars>>

\* part_002:40-43  a TaskCard's handleComplete up to its await: the checkbox
\* of the card of task id, which takes no input while disabled (part_002:65),
\* is toggled; onComplete is the page's handleTaskComplete, which awaits
\* completeTask (today/page.tsx:72-74).
handleComplete(id, checked) ==
  /\ mounted
  /\ \E i \in DOMAIN tasks : tasks[i].id = id
  /\ ~isCompleting[id]
  /\ Issue(Call("completeTask",
                [id |-> id, completed |-> checked, card |-> TRUE]), tasksError)
  /\ UNCHANGED <<taskVars, authVars>>

completeTaskResolve(c, updatedTask) ==
  /\ c.op = "completeTask"
  /\ updatedTask \in UpdateResponses(c.arg.id, c.arg.completed)
  /\ tasks' = ReplaceCompleted(tasks, c.arg.id, updatedTask)
  /\ tasksError' = MutationOkError(tasksError)
  /\ Settle(c, Resolved(updatedTask), Fulfilled(updatedTask), tasksError)
  /\ UNCHANGED <<tasksLoading, mounted, authVars>>

completeTaskReject(c, f) ==
  /\ c.op = "completeTask"
  /\ tasksError' = CompleteError(f)
  /\ Settle(c, Rejected(f), Thrown(f), tasksError)
  /\ UNCHANGED <<tasks, tasksLoading, mounted, authVars>>

TaskNext ==
  \/ mountEffect
  \/ refetch
  \/ \E c \in inflight, l \in FetchLists : fetchResolve(c, l)
  \/ \E c \in inflight, f \in Failures : fetchReject(c, f)
  \/ createTask
  \/ \E c \in inflight, t \in CreateResponses : createTaskResolve(c, t)
  \/ \E c \in inflight, f \in Failures : createTaskReject(c, f)
  \/ \E id \in TaskIds, b \in BOOLEAN : updateTask(id, b)
  \/ \E c \in inflight, t \in TaskValues : updateTaskResolve(c, t)
  \/ \E c \in inflight, f \in Failures : updateTaskReject(c, f)
  \/ \E id \in TaskIds : deleteTask(id)
  \/ \E c \in inflight : deleteTaskResolve(c)
  \/ \E c \in inflight, f \in Failures : deleteTaskReject(c, f)
  \/ \E id \in TaskIds, b \in BOOLEAN : completeTask(id, b)
  \/ \E c \in inflight, t \in TaskValues : completeTaskResolve(c, t)
  \/ \E c \in inflight, f \in Failures : completeTaskReject(c, f)

AuthNext ==
  \/ login
  \/ \E c \in inflight, u \in Users : loginResolve(c, u)
  \/ \E c \in inflight, f \in Failures : loginReject(c, f)
  \/ register
  \/ \E c \in inflight, u \in Users : registerResolve(c, u)
  \/ \E c \in inflight, f \in Failures : registerReject(c, f)
  \/ logout
  \/ \E c \in inflight : logoutResolve(c)
  \/ \E c \in inflight, f \in Failures : logoutReject(c, f)
  \/ resetPassword
  \/ \E c \in inflight : resetPasswordResolve(c)
  \/ \E c \in inflight, f \in Failures : resetPasswordReject(c, f)
  \/ \E u \in Users \cup {NoUser} : setUser(u)
  \/ clearError

\* ------------------------------------------------------------------ server
\* The server behind tasksAPI: it holds the tasks, gives every created task an
\* id it has never given before, and answers each request from what it holds
\* at the moment it processes the request.
EmptyServer == [tasks |-> <<>>, used |-> {}]
NotFound == [isError |-> TRUE, message |-> "Task not found"]
Holds(id) == \E i \in DOMAIN server.tasks : server.tasks[i].id = id
NoAnswers == [i \in 1..MaxCalls |-> NoRemote]
Answered(c) == answers[c.id].kind # "none"
Answer(c, remote) == answers' = [answers EXCEPT ![c.id] = remote]

serverProcess(c) ==
  /\ c.op \in {"fetchTasks", "createTask", "updateTask", "deleteTask", "completeTask"}
  /\ ~Answered(c)
  /\ CASE c.op = "fetchTasks" ->
            /\ Answer(c, Resolved(server.tasks))
            /\ server' = server
       [] c.op = "createTask" ->
            \E id \in TaskIds \ server.used :
              LET newTask == [id |-> id, completed |-> FALSE]
              IN /\ server' = [tasks |-> Append(server.tasks, newTask),
                               used |-> server.used \cup {id}]
                 /\ Answer(c, Resolved(newTask))
       [] c.op \in {"updateTask", "completeTask"} ->
            LET updatedTask == [id |-> c.arg.id, completed |-> c.arg.completed]
            IN IF Holds(c.arg.id)
               THEN /\ server' = [server EXCEPT !.tasks =
                                    ReplaceTask(server.tasks, c.arg.id, updatedTask)]
                    /\ Answer(c, Resolved(updatedTask))
               ELSE /\ server' = server
                    /\ Answer(c, Rejected(NotFound))
       [] c.op = "deleteTask" ->
            IF Holds(c.arg.id)
            THEN /\ server' = [server EXCEPT !.tasks = RemoveTask(server.tasks, c.arg.id)]
                 /\ Answer(c, Resolved(Undefined))
            ELSE /\ server' = server
                 /\ Answer(c, Rejected(NotFound))
  /\ UNCHANGED <<authVars, taskVars, pageVars, cardVars, ghostVars,
                 inflight, nextId, last>>

\* The answer the server has given to call c, arriving at the client.
Arrives(c, kind) == IF answers[c.id].kind = kind THEN {answers[c.id].val} ELSE {}

Base ==
  /\ user = NoUser
  /\ isLoading = FALSE
  /\ error = NoError
  /\ tasks = <<>>
  /\ tasksLoading = TRUE
  /\ tasksError = NoError
  /\ mounted = FALSE
  /\ inflight = {}
  /\ nextId = 1
  /\ last = Step(SyncCall("init", NoArg), "sync", NoRemote, Pending, NoError)
  /\ history = <<>>
  /\ owners = <<>>
  /\ _hasHydrated = FALSE
  /\ rehydration = "pending"
  /\ pageDeps = Unmounted
  /\ redirected = FALSE
  /\ isCompleting = [id \in TaskIds |-> FALSE]
  /\ server = EmptyServer
  /\ answers = NoAnswers

\* Nothing is left in localStorage by an earlier page load.
EmptyStorage ==
  /\ persisted = NoUser
  /\ storedUser = NoUser
  /\ token = FALSE

Init == Base /\ EmptyStorage /\ recording = FALSE

Next == AuthNext \/ TaskNext

SpecAuth == Init /\ [][AuthNext]_vars
SpecTasks == Init /\ [][TaskNext]_vars
Spec == Init /\ [][Next]_vars

\* Runs in which every createTask, updateTask and deleteTask succeeds, after
\* the mount fetch, with every settled step appended to the history.
InitHistory == Base /\ EmptyStorage /\ recording = TRUE

HistoryNext ==
  \/ mountEffect
  \/ \E c \in inflight, l \in FetchLists : fetchResolve(c, l)
  \/ createTask
  \/ \E c \in inflight, t \in CreateResponses : createTaskResolve(c, t)
  \/ \E id \in TaskIds, b \in BOOLEAN : updateTask(id, b)
  \/ \E c \in inflight, t \in TaskValues : updateTaskResolve(c, t)
  \/ \E id \in TaskIds : deleteTask(id)
  \/ \E c \in inflight : deleteTaskResolve(c)

SpecHistory == InitHistory /\ [][HistoryNext]_vars

\* The session store with its persistence: every store operation, and the
\* restore the persist middleware makes once per page load.
HydrationNext ==
  \/ rehydrate
  \/ rehydrateFailed
  \/ \E b \in BOOLEAN : setHasHydrated(b)
  \/ \E w \in BOOLEAN : initializeAuth(w)

SpecHydration == Init /\ [][AuthNext \/ HydrationNext]_vars

\* A dashboard page over the session store.  An earlier page load may have
\* left anything in localStorage: a saved user or none under 'auth-storage',
\* and a user, a token, both or neither under 'user' and 'auth-token'.
InitPage ==
  /\ Base
  /\ recording = FALSE
  /\ persisted \in Users \cup {NoUser, Absent}
  /\ storedUser \in Users \cup {NoUser}
  /\ token \in BOOLEAN

PageNext ==
  \/ rehydrate
  \/ rehydrateFailed
  \/ checkAuth
  \/ \E su \in Users \cup {NoUser}, tk \in BOOLEAN : storageChange(su, tk)
  \/ \E b \in BOOLEAN : setHasHydrated(b)
  \/ \E w \in BOOLEAN : initializeAuth(w)
  \/ \E u \in Users \cup {NoUser} : setUser(u)
  \/ login
  \/ \E c \in inflight, u \in Users : loginResolve(c, u)
  \/ logout
  \/ \E c \in inflight : logoutResolve(c)

SpecPage == InitPage /\ [][PageNext]_vars

\* The same page when the restore and the page's effect are not held back:
\* the persist middleware restores at store creation, and React runs an
\* effect whose dependencies have changed.  Nothing obliges the other steps.
SpecPageFair ==
  /\ InitPage
  /\ [][PageNext]_vars
  /\ WF_vars(rehydrate \/ rehydrateFailed)
  /\ WF_vars(checkAuth)

\* The useTasks hook under a session that changes hands: login, logout and
\* setUser, with the fetch on mount and createTask both succeeding, and the
\* owner of every task kept.
ScopeNext ==
  \/ \E u \in Users \cup {NoUser} : setUser(u)
  \/ login
  \/ \E c \in inflight, u \in Users : loginResolve(c, u)
  \/ logout
  \/ \E c \in inflight : logoutResolve(c)
  \/ mountEffect
  \/ \E c \in inflight, l \in FetchLists : fetchResolve(c, l)
  \/ createTask
  \/ \E c \in inflight, t \in CreateResponses : createTaskResolve(c, t)

SpecScope == InitHistory /\ [][ScopeNext]_vars

\* The useTasks hook over tasks that carry their completion timestamp, with
\* the fetch on mount, createTask and completeTask all succeeding and every
\* settled step kept.  The server may send any representation.
StampsNext ==
  \/ mountEffect
  \/ \E c \in inflight, l \in StampedFetchLists : fetchResolve(c, l)
  \/ createTask
  \/ \E c \in inflight, t \in StampedTasks : createTaskResolve(c, t)
  \/ \E id \in TaskIds, b \in BOOLEAN : completeTask(id, b)
  \/ \E c \in inflight, t \in StampedTasks : completeTaskResolve(c, t)

SpecStamps == InitHistory /\ [][StampsNext]_vars

\* The session store's login, register and logout, overlapping freely, with
\* every settled step kept.
FenceNext ==
  \/ login
  \/ \E c \in inflight, u \in Users : loginResolve(c, u)
  \/ \E c \in inflight, f \in Failures : loginReject(c, f)
  \/ register
  \/ \E c \in inflight, u \in Users : registerResolve(c, u)
  \/ \E c \in inflight, f \in Failures : registerReject(c, f)
  \/ logout
  \/ \E c \in inflight : logoutResolve(c)
  \/ \E c \in inflight, f \in Failures : logoutReject(c, f)

SpecFence == InitHistory /\ [][FenceNext]_vars

\* The useTasks hook against the server: every request is processed by the
\* server at some moment after it was sent, and its answer arrives at some
\* later moment, in any order.
ServerNext ==
  \/ mountEffect
  \/ refetch
  \/ createTask
  \/ \E id \in TaskIds, b \in BOOLEAN : updateTask(id, b)
  \/ \E id \in TaskIds : deleteTask(id)
  \/ \E id \in TaskIds, b \in BOOLEAN : completeTask(id, b)
  \/ \E c \in inflight : serverProcess(c)
  \/ \E c \in inflight : \E l \in Arrives(c, "resolved") : fetchResolve(c, l)
  \/ \E c \in inflight : \E t \in Arrives(c, "resolved") : createTaskResolve(c, t)
  \/ \E c \in inflight : \E t \in Arrives(c, "resolved") : updateTaskResolve(c, t)
  \/ \E c \in inflight : \E f \in Arrives(c, "rejected") : updateTaskReject(c, f)
  \/ \E c \in inflight : \E v \in Arrives(c, "resolved") : deleteTaskResolve(c)
  \/ \E c \in inflight : \E f \in Arrives(c, "rejected") : deleteTaskReject(c, f)
  \/ \E c \in inflight : \E t \in Arrives(c, "resolved") : completeTaskResolve(c, t)
  \/ \E c \in inflight : \E f \in Arrives(c, "rejected") : completeTaskReject(c, f)

SpecServer == Init /\ [][ServerNext]_vars

\* TaskCards over the useTasks hook: the fetch on mount, the cards' checkboxes
\* toggled, completeTask also called from elsewhere, and every response.
CardNext ==
  \/ mountEffect
  \/ \E c \in inflight, l \in FetchLists : fetchResolve(c, l)
  \/ \E id \in TaskIds, b \in BOOLEAN : handleComplete(id, b)
  \/ \E id \in TaskIds, b \in BOOLEAN : completeTask(id, b)
  \/ \E c \in inflight, t \in TaskValues : completeTaskResolve(c, t)
  \/ \E c \in inflight, f \in Failures : completeTaskReject(c, f)

SpecCard == Init /\ [][CardNext]_vars

\* Runs in which updateTask and completeTask calls overlap and all succeed,
\* after the mount fetch, with every settled step appended to the history.
OverlapNext ==
  \/ mountEffect
  \/ \E c \in inflight, l \in FetchLists : fetchResolve(c, l)
  \/ \E id \in TaskIds, b \in BOOLEAN : updateTask(id, b)
  \/ \E c \in inflight, t \in TaskValues : updateTaskResolve(c, t)
  \/ \E id \in TaskIds, b \in BOOLEAN : completeTask(id, b)
  \/ \E c \in inflight, t \in TaskValues : completeTaskResolve(c, t)

SpecOverlap == InitHistory /\ [][OverlapNext]_vars

\* Runs of login attempts that are all answered, successfully, with the
\* synchronous setters called in between: no request is cancelled
\* (useRealAuthStore.ts:40-52), so a response that is due arrives.
LoginsNext ==
  \/ login
  \/ \E c \in inflight, u \in Users : loginResolve(c, u)
  \/ \E u \in Users \cup {NoUser} : setUser(u)
  \/ clearError

SpecLogins ==
  /\ Init
  /\ [][LoginsNext]_vars
  /\ WF_vars(\E c \in inflight, u \in Users : loginResolve(c, u))

\* ------------------------------------------------------------------ properties
SettledOf(ops) == last.phase = "settled" /\ last.op \in ops
StartedOf(ops) == last.phase = "start" /\ last.op \in ops
RemoteResolved == last.remote.kind = "resolved"
RemoteRejected == last.remote.kind = "rejected"
TaskMutations == {"createTask", "updateTask", "deleteTask", "completeTask"}
ThrowingSessionOps == {"login", "register", "resetPassword"}

\* C1 (as claimed): in the state right after a logout() call has settled,
\* whether its remote call resolved or rejected, the user field is null.
C1_LogoutAlwaysClearsUser ==
  SettledOf({"logout"}) => user = NoUser

\* C2: the step in which a createTask, updateTask, deleteTask or completeTask
\* call settles after its remote call rejected leaves the task collection
\* exactly as it was when the response arrived (same length, same elements).
C2_FailedMutationKeepsTasks ==
  [][ (last'.phase = "settled" /\ last'.op \in TaskMutations
        /\ last'.remote.kind = "rejected")
      => tasks' = tasks ]_vars

\* C2 witness: a failed createTask has settled on a non-empty collection.
C2_Witness ==
  /\ SettledOf({"createTask"}) /\ RemoteRejected
  /\ Len(tasks) = 2

\* The message the claim expects in the error field for a failure f of op.
C3_Fallback(op) ==
  CASE op = "login" -> "Login failed"
    [] op = "register" -> "Registration failed"
    [] op = "resetPassword" -> "Password reset failed"
    [] op = "createTask" -> "Failed to create task"
    [] op = "updateTask" -> "Failed to update task"
    [] op = "deleteTask" -> "Failed to delete task"
    [] op = "completeTask" -> "Failed to update task"
C3_Message(op, f) == IF f.isError THEN f.message ELSE C3_Fallback(op)

\* C3: right after a login, register, resetPassword, createTask, updateTask,
\* deleteTask or completeTask call settles with its remote call rejected, the
\* error field of its store holds the failure's message (the operation's
\* fallback string when the failure carries none) and the call's promise is
\* rejected with the very failure the remote call raised.
C3_FailureRecordedAndRethrown ==
  (SettledOf(ThrowingSessionOps \cup TaskMutations) /\ RemoteRejected)
  => /\ (IF last.op \in ThrowingSessionOps THEN error ELSE tasksError)
          = C3_Message(last.op, last.remote.val)
     /\ last.promise.kind = "rejected"
     /\ last.promise.val = last.remote.val

\* C3 witness: both stores show a failure message, the latest from a task
\* mutation that failed with a value carrying no message.
C3_Witness ==
  /\ SettledOf(TaskMutations) /\ RemoteRejected
  /\ ~last.remote.val.isError
  /\ tasksError = "Failed to delete task"
  /\ error = "Network error"

\* What the claim takes each confirmed result to do to a collection.
C4_Apply(list, e) ==
  CASE e.op = "fetchTasks" -> e.remote.val
    [] e.op = "createTask" -> Append(list, e.remote.val)
    [] e.op = "updateTask" ->
         [i \in DOMAIN list |-> IF list[i].id = e.arg.id THEN e.remote.val ELSE list[i]]
    [] e.op = "deleteTask" -> SelectSeq(list, LAMBDA t : t.id # e.arg.id)

RECURSIVE C4_ApplyAll(_, _)
C4_ApplyAll(list, h) ==
  IF h = <<>> THEN list ELSE C4_ApplyAll(C4_Apply(list, Head(h)), Tail(h))

\* The settled steps reordered by call id: the order the calls were made.
C4_InCallOrder(h) ==
  [k \in DOMAIN h |->
     h[CHOOSE i \in DOMAIN h : Cardinality({j \in DOMAIN h : h[j].id <= h[i].id}) = k]]

\* Every call has been answered, the mount fetch first.
C4_Final ==
  /\ inflight = {}
  /\ history # <<>>
  /\ history[1].op = "fetchTasks"

\* C4 (as claimed): once a sequence of successful createTask, updateTask and
\* deleteTask calls has been answered, the collection equals the confirmed
\* results applied in the order the calls were made.
C4_AppliedInCallOrder ==
  C4_Final => tasks = C4_ApplyAll(<<>>, C4_InCallOrder(history))

\* C4 (amended): in every state the collection equals the confirmed results
\* applied one by one in the order their responses arrived, each exactly once.
C4_AppliedInArrivalOrder ==
  tasks = C4_ApplyAll(<<>>, history)

\* C4 witness: two overlapping calls answered in the reverse of call order,
\* after the mount fetch, all answered.
C4_Witness ==
  /\ C4_Final
  /\ Len(history) = 3
  /\ history[2].id > history[3].id
  /\ history[2].op = "createTask"
  /\ history[3].op = "updateTask"
  /\ Len(tasks) = 2

TaskOps == TaskMutations \cup {"fetchTasks"}
SessionOps == ThrowingSessionOps \cup {"logout"}

\* C5 (as claimed): right after a useTasks operation (fetch, createTask,
\* updateTask, deleteTask, completeTask) completes successfully, the hook's
\* error field is null, whatever an earlier failure left in it.
C5_SuccessClearsTaskError ==
  (SettledOf(TaskOps) /\ RemoteResolved) => tasksError = NoError

\* The error field of the store the latest step belongs to.
C6_StoreError == IF last.op \in SessionOps THEN error ELSE tasksError

\* C6 (as claimed): right after any store operation has started (it is in
\* flight, no response yet), the error field of its store holds no message
\* left by an operation that finished earlier.
C6_StartClearsError ==
  StartedOf(SessionOps \cup TaskOps) => C6_StoreError = NoError

\* C6 (amended): right after login, register or resetPassword has started,
\* the session store's error field is null.
C6_SessionStartClearsError ==
  StartedOf(ThrowingSessionOps) => error = NoError

\* C6 witness: resetPassword has just started in a state whose error field
\* held a message from an earlier failure.
C6_Witness ==
  /\ StartedOf({"resetPassword"})
  /\ last.errorBefore = "Login failed"
  /\ error = NoError

\* C7 (as claimed): right after a login or register call settles with its
\* remote call resolved, user is the returned user record, isLoading is false
\* and error is null.
C7_LoginSuccessState ==
  (SettledOf({"login", "register"}) /\ RemoteResolved)
  => /\ user = last.remote.val
     /\ isLoading = FALSE
     /\ error = NoError

\* C8: a login or register call whose remote call rejects, and any
\* resetPassword call, changes the user field neither in the step that starts
\* it nor in the step that settles it, and isLoading is false right after it
\* settles.
C8_UserUntouched ==
  [][ /\ (last'.phase = "start" /\ last'.op \in ThrowingSessionOps)
         => user' = user
      /\ (last'.phase = "settled"
          /\ \/ last'.op \in {"login", "register"} /\ last'.remote.kind = "rejected"
             \/ last'.op = "resetPassword")
         => (user' = user /\ isLoading' = FALSE) ]_vars

\* C8 witness: a login has failed while a user was set, and the user is
\* still set.
C8_Witness ==
  /\ SettledOf({"login"}) /\ RemoteRejected
  /\ user = "alice"
  /\ error = "Login failed"
  /\ isLoading = FALSE

\* C9: the step in which a fetchTasks / refetch call settles sets isLoading
\* to false; when the remote call resolved, the collection becomes exactly the
\* returned list and error becomes null; when it rejected, the collection is
\* left as it was and error becomes the failure's message (the fallback
\* 'Failed to fetch tasks' when the failure carries none).
C9_FetchOutcome ==
  [][ (last'.phase = "settled" /\ last'.op = "fetchTasks")
      => /\ tasksLoading' = FALSE
         /\ IF last'.remote.kind = "resolved"
            THEN tasks' = last'.remote.val /\ tasksError' = NoError
            ELSE /\ tasks' = tasks
                 /\ tasksError' = IF last'.remote.val.isError
                                  THEN last'.remote.val.message
                                  ELSE "Failed to fetch tasks" ]_vars

\* C9 witness: a refetch has failed after an earlier fetch filled the
\* collection: the two tasks are still there and the message is shown.
C9_Witness ==
  /\ SettledOf({"fetchTasks"}) /\ RemoteRejected
  /\ last.id > 1
  /\ Len(tasks) = 2
  /\ tasksError = "Network error"
  /\ tasksLoading = FALSE

\* C10: the step in which a createTask call settles with its remote call
\* resolved makes the collection one longer, with the returned task last and
\* the earlier elements as they were, and fulfils the call's promise with
\* that same task.
C10_CreateAppends ==
  [][ (last'.phase = "settled" /\ last'.op = "createTask"
        /\ last'.remote.kind = "resolved")
      => /\ Len(tasks') = Len(tasks) + 1
         /\ tasks'[Len(tasks')] = last'.remote.val
         /\ SubSeq(tasks', 1, Len(tasks)) = tasks
         /\ last'.promise.kind = "fulfilled"
         /\ last'.promise.val = last'.remote.val ]_vars

\* C10 witness: a task has been created behind two fetched ones.
C10_Witness ==
  /\ SettledOf({"createTask"}) /\ RemoteResolved
  /\ Len(tasks) = 3
  /\ tasks[3] = last.remote.val
  /\ tasks[1].id # tasks[2].id

\* ------------------------------------------------------------------ C11
\* C11: a successful updateTask(id, patch) puts the server's returned task at
\* every position that held a task with that id, and leaves the length of the
\* collection, the order and every task with another id as they were.
C11_UpdateReplacesInPlace ==
  [][ (last'.phase = "settled" /\ last'.op = "updateTask"
        /\ last'.remote.kind = "resolved")
      => /\ Len(tasks') = Len(tasks)
         /\ \A i \in DOMAIN tasks :
              tasks'[i] = IF tasks[i].id = last'.arg.id
                          THEN last'.remote.val
                          ELSE tasks[i] ]_vars

\* An update of the first of two tasks has succeeded and changed it; the
\* second task, with another id, still follows it.
C11_Witness ==
  /\ SettledOf({"updateTask"}) /\ RemoteResolved
  /\ Len(tasks) = 2
  /\ tasks[1] = last.remote.val
  /\ tasks[1].completed
  /\ tasks[2].id # last.arg.id

\* ------------------------------------------------------------------ C12
\* C12: a successful deleteTask(id) leaves exactly the tasks whose id differs
\* from id, in their previous relative order; the step that sends the request
\* leaves the collection as it was, so nothing is removed before the response.
C12_DeleteRemovesOnConfirmation ==
  [][ /\ (last'.phase = "settled" /\ last'.op = "deleteTask"
           /\ last'.remote.kind = "resolved")
         => tasks' = SelectSeq(tasks, LAMBDA task : task.id # last'.arg.id)
      /\ (last'.phase = "start" /\ last'.op = "deleteTask")
         => tasks' = tasks ]_vars

\* A confirmed deletion has removed one of two tasks and kept the other.
C12_Witness ==
  /\ SettledOf({"deleteTask"}) /\ RemoteResolved
  /\ Len(tasks) = 1
  /\ tasks[1].id # last.arg.id

\* ------------------------------------------------------------------ C13
Replacements == {"updateTask", "completeTask"}

\* The earlier arrivals that replaced the task the latest step is about.
C13_EarlierArrivals ==
  {k \in 1..(Len(history) - 1) :
     /\ history[k].op \in Replacements
     /\ history[k].arg.id = last.arg.id}

\* C13: when the response of an updateTask or completeTask call arrives after
\* the response of another such call for the same id, every task with that id
\* equals the result of the later arrival, whichever call was issued first.
C13_LastArrivalWins ==
  (SettledOf(Replacements) /\ RemoteResolved /\ C13_EarlierArrivals # {})
    => \A i \in DOMAIN tasks :
         tasks[i].id = last.arg.id => tasks[i] = last.remote.val

\* Two calls for the same id overlapped: the one issued first was answered
\* last, with a different result, and the task holds that result.
C13_Witness ==
  /\ SettledOf(Replacements) /\ RemoteResolved
  /\ \E k \in C13_EarlierArrivals :
       /\ history[k].id > last.id
       /\ history[k].remote.val # last.remote.val
       /\ history[k].op # last.op
  /\ \E i \in DOMAIN tasks : tasks[i] = last.remote.val

\* ------------------------------------------------------------------ C14
\* The position in the history of the latest fetch response, 0 if none.
C14_LastFetch ==
  LET F == {k \in DOMAIN history : history[k].op = "fetchTasks"}
  IN IF F = {} THEN 0 ELSE CHOOSE k \in F : \A j \in F : j <= k

\* The replacements that arrived after the latest fetch response and were
\* not followed by another replacement of the same id.
C14_Standing ==
  {k \in DOMAIN history :
     /\ history[k].op \in Replacements
     /\ k > C14_LastFetch
     /\ \A j \in DOMAIN history :
          (j > k /\ history[j].op \in Replacements)
            => history[j].arg.id # history[k].arg.id}

C14_Fetched == IF C14_LastFetch = 0 THEN <<>> ELSE history[C14_LastFetch].remote.val

\* C14: the results of successful updateTask / completeTask calls for
\* different ids are all in the collection, whatever the order of their
\* responses: every task whose id was replaced holds the result of that
\* replacement, and the collection still has the fetched tasks' ids, in place.
C14_BothResultsKept ==
  /\ \A k \in C14_Standing : \A i \in DOMAIN tasks :
       tasks[i].id = history[k].arg.id => tasks[i] = history[k].remote.val
  /\ Len(tasks) = Len(C14_Fetched)
  /\ \A i \in DOMAIN tasks : tasks[i].id = C14_Fetched[i].id

\* Two overlapping calls for different ids, answered in the reverse of the
\* order they were issued in, each changed its task, and both results are held.
C14_Witness ==
  /\ inflight = {}
  /\ \E j, k \in C14_Standing :
       /\ j < k
       /\ history[j].id > history[k].id
       /\ history[j].arg.id # history[k].arg.id
       /\ history[j].op = "completeTask" /\ history[k].op = "completeTask"
       /\ \E a, b \in DOMAIN tasks :
            /\ tasks[a] = history[j].remote.val /\ tasks[a] # C14_Fetched[a]
            /\ tasks[b] = history[k].remote.val /\ tasks[b] # C14_Fetched[b]

\* ------------------------------------------------------------------ C15
\* No login attempt is in flight, and the store holds what the response that
\* arrived last gave.
C15_Settled ==
  /\ inflight = {}
  /\ SettledOf({"login"}) /\ RemoteResolved
  /\ user = last.remote.val
  /\ isLoading = FALSE

\* C15: whenever login attempts are in flight and all are answered
\* successfully, the store eventually has no attempt in flight, user equal to
\* the user of the response that arrived last, and isLoading false.
C15_LastLoginResponseWins == (inflight # {}) ~> C15_Settled

\* Three attempts overlapped; the one answered last was not the one issued
\* last, and the store holds its user.
C15_Witness ==
  /\ C15_Settled
  /\ nextId = 4
  /\ last.id = 1

\* ------------------------------------------------------------------ C18
\* C18: logout() never rejects: when it has settled, whether the remote
\* logout resolved or rejected, its promise is fulfilled and isLoading is
\* false.
C18_LogoutNeverRejects ==
  SettledOf({"logout"})
    => /\ last.promise.kind = "fulfilled"
       /\ isLoading = FALSE

\* The remote logout was rejected while another call was still in flight,
\* and logout() was fulfilled all the same.
C18_Witness ==
  /\ SettledOf({"logout"}) /\ RemoteRejected
  /\ last.promise.kind = "fulfilled"
  /\ isLoading = FALSE
  /\ inflight # {}

\* ------------------------------------------------------------------ C19
\* The request updateTask(id, {completed}) sends.
C19_UpdateRequest(id, completed) ==
  Request("updateTask", [id |-> id, completed |-> completed])

\* The step that sends completeTask's request sends updateTask's.
C19_SameRequest ==
  (last'.phase = "start" /\ last'.op = "completeTask")
    => /\ last'.request = C19_UpdateRequest(last'.arg.id, last'.arg.completed)
       /\ UNCHANGED taskVars

\* The step that receives completeTask's response does what updateTask's does.
C19_SameEffects ==
  /\ (last'.phase = "settled" /\ last'.op = "completeTask"
       /\ last'.remote.kind = "resolved")
     => /\ tasks' = ReplaceTask(tasks, last'.arg.id, last'.remote.val)
        /\ tasksError' = MutationOkError(tasksError)
        /\ last'.promise = Fulfilled(last'.remote.val)
  /\ (last'.phase = "settled" /\ last'.op = "completeTask"
       /\ last'.remote.kind = "rejected")
     => /\ tasks' = tasks
        /\ tasksError' = UpdateError(last'.remote.val)
        /\ last'.promise = Thrown(last'.remote.val)

\* C19: completeTask(id, completed) sends the request updateTask(id,
\* {completed}) sends, and when the response arrives leaves the collection,
\* the error field and its own promise as updateTask would: the replacement
\* in place and the returned task on success, the recorded message and the
\* rethrown failure otherwise.
C19_CompleteIsUpdate == [][C19_SameRequest /\ C19_SameEffects]_vars

\* ------------------------------------------------------------------ C16
\* A step that assigns the hydration flag.
C16_FlagAssigned ==
  /\ last' # last
  /\ last'.op \in {"setHasHydrated", "onRehydrateStorage"}
  /\ last'.arg # Undefined

C17_RedirectOnlyWhenHydrated ==
  [][ /\ (last' # last /\ last'.op = "checkAuth" /\ last'.arg.evaluated)
         => _hasHydrated
      /\ (redirected' /\ ~redirected)
         => /\ _hasHydrated
            /\ user = NoUser
            /\ (storedUser = NoUser \/ ~token) ]_vars

\* The page has left for /login after the restore: a user is kept under
\* 'user', but the token is missing.
C17_Witness ==
  /\ redirected
  /\ rehydration = "done"
  /\ last.op = "checkAuth"
  /\ storedUser # NoUser /\ ~token

\* ------------------------------------------------------------------ C20
\* C20: every task in the collection entered it, by a fetch or a creation,
\* while the current session user was the session user.
C20_ScopedToSessionUser ==
  \A i \in DOMAIN tasks : owners[i] = user

\* ------------------------------------------------------------------ C21
\* C21: initializeAuth() sets user to the stored user exactly when there is a
\* window and both the stored user and the token exist; in every other case
\* user is empty after the call; isLoading, error and _hasHydrated are never
\* changed by it.
C21_InitializeAuth ==
  [][ last'.op = "initializeAuth"
      => /\ IF last'.arg.hasWindow /\ storedUser # NoUser /\ token
            THEN user' = storedUser
            ELSE user' = NoUser
         /\ UNCHANGED <<isLoading, error, _hasHydrated>> ]_vars

\* ------------------------------------------------------------------ C22
\* A task has a completion timestamp exactly when it is completed.
C22_Consistent(t) == t.completedAt <=> t.completed

\* Every task the server has sent so far is consistent.
C22_ServerConsistent ==
  \A k \in DOMAIN history :
    CASE history[k].op = "fetchTasks" ->
           \A i \in DOMAIN history[k].remote.val :
             C22_Consistent(history[k].remote.val[i])
      [] OTHER -> C22_Consistent(history[k].remote.val)

C23_InFlight == \E c \in inflight : c.op \in SessionOps

\* C23 as stated: isLoading is true exactly when a login, register, logout
\* or resetPassword call has been started and has not settled.
C23_LoadingIffInFlight == isLoading <=> C23_InFlight

\* C23, amended: isLoading is true from the start of a session call until
\* the next response to any session call: every start sets it, every
\* response clears it whatever else is in flight, nothing else changes it,
\* and while it is true a call is in flight.
C23_LoadingFollowsLastWrite ==
  /\ [](isLoading => C23_InFlight)
  /\ [][ /\ (last'.phase = "start" /\ last'.op \in SessionOps) => isLoading'
         /\ (last'.phase = "settled" /\ last'.op \in SessionOps) => ~isLoading'
         /\ (last'.op \notin SessionOps) => (isLoading' = isLoading) ]_vars

\* Two calls overlapped and one has been answered: the other is still in
\* flight and isLoading is false.
C23_Witness ==
  /\ SettledOf(SessionOps)
  /\ C23_InFlight
  /\ isLoading = FALSE

\* ------------------------------------------------------------------ C24
\* C24: the collection changes only in the step that applies a successful
\* response of fetchTasks, createTask, updateTask, deleteTask or
\* completeTask; the step that sends a request, and every other step, leaves
\* it as it was.
C24_ChangesOnlyOnConfirmation ==
  [][ (tasks' # tasks)
      => /\ last'.phase = "settled"
         /\ last'.op \in TaskOps
         /\ last'.remote.kind = "resolved" ]_vars

\* A completeTask request is in flight and the task still has its old flag.
C24_Witness ==
  /\ StartedOf({"completeTask"})
  /\ \E i \in DOMAIN tasks :
       /\ tasks[i].id = last.arg.id
       /\ tasks[i].completed # last.arg.completed

\* ------------------------------------------------------------------ C25
\* C25: the response of a login, register or logout call is applied when it
\* arrives, whatever was started or finished since the call was made: a
\* successful login or register sets user to the returned user, a successful
\* logout empties user and error, a failed login or register records its
\* message, and each of them clears isLoading.
C25_ResponseAlwaysApplied ==
  SettledOf({"login", "register", "logout"})
    => /\ isLoading = FALSE
       /\ (last.op \in {"login", "register"} /\ RemoteResolved)
            => user = last.remote.val
       /\ (last.op \in {"login", "register"} /\ RemoteRejected)
            => error = C3_Message(last.op, last.remote.val)
       /\ (last.op = "logout" /\ RemoteResolved)
            => (user = NoUser /\ error = NoError)

\* A logout made after a login was answered before it; the login's response
\* then arrived and set the user.
C25_Witness ==
  /\ SettledOf({"login"}) /\ RemoteResolved
  /\ user = last.remote.val
  /\ \E k \in 1..(Len(history) - 1) :
       /\ history[k].op = "logout"
       /\ history[k].remote.kind = "resolved"
       /\ history[k].id > last.id

\* ------------------------------------------------------------------ C26
\* The onComplete calls of the card of task id that have not settled.
C26_Pending(id) == {c \in inflight : FromCard(c) /\ c.arg.id = id}

\* C26: the checkbox of a TaskCard is disabled exactly while an onComplete
\* call of that card is pending, whether the call will resolve or reject, and
\* a card never has two onComplete calls pending.
C26_DisabledWhilePending ==
  \A id \in TaskIds :
    /\ isCompleting[id] <=> (C26_Pending(id) # {})
    /\ Cardinality(C26_Pending(id)) <= 1

\* The onComplete call of a card was rejected and the card is enabled again,
\* while another card's call is still pending.
C26_Witness ==
  /\ SettledOf({"completeTask"}) /\ RemoteRejected
  /\ "card" \in DOMAIN last.arg
  /\ ~isCompleting[last.arg.id]
  /\ \E id \in TaskIds : isCompleting[id]

\* ------------------------------------------------------------------ C29
\* C29: no step of updateTask or completeTask changes the length of the
\* collection, and a successful update or completion of an id that no task of
\* the collection has leaves the collection exactly as it was.
C29_UpdateKeepsLength ==
  [][ (last'.op \in {"updateTask", "completeTask"} /\ last' # last)
      => /\ Len(tasks') = Len(tasks)
         /\ (/\ last'.phase = "settled"
             /\ last'.remote.kind = "resolved"
             /\ \A i \in DOMAIN tasks : tasks[i].id # last'.arg.id)
            => tasks' = tasks ]_vars

\* The response of an update or completion has arrived, successfully, for an
\* id that no task of the collection has; the collection holds the other task.
C29_Witness ==
  /\ SettledOf({"updateTask", "completeTask"}) /\ RemoteResolved
  /\ last.remote.val.id = last.arg.id
  /\ Len(tasks) = 1
  /\ tasks[1].id # last.arg.id

\* ------------------------------------------------------------------ C27
\* C27: with a server that gives every created task a fresh id and returns
\* lists without duplicate ids, no two tasks of the local collection share an
\* id, whatever the order in which the responses arrive.
C27_NoDuplicateIds == DistinctIds(tasks)

\* ------------------------------------------------------------------ C28
Range(q) == {q[i] : i \in DOMAIN q}
\* The hook has fetched, no request is awaiting its response, and the server
\* has refused none.
C28_AllAnsweredAndSucceeded ==
  /\ mounted
  /\ inflight = {}
  /\ \A i \in DOMAIN answers : answers[i].kind # "rejected"

\* C28: once every task request has been answered, all of them successfully,
\* the local collection holds exactly the tasks the server holds, whatever
\* the order in which the server processed the requests and the responses
\* arrived.
C28_SameTasksAsServer ==
  C28_AllAnsweredAndSucceeded => Range(tasks) = Range(server.tasks)

\* ------------------------------------------------------------------ C30
\* today/page.tsx:52-58: with the restore done, the page renders nothing
\* while the store has no user; here it has not left for /login either.
C30_Blank == _hasHydrated /\ user = NoUser /\ ~redirected

\* C30: once _hasHydrated is true a dashboard page does not stay blank for
\* ever: whenever it is blank, later the store has a user (and the page
\* renders its content) or the authentication check has sent it to /login.
C30_NeverBlankForever == C30_Blank ~> (user # NoUser \/ redirected)
====
